---- MODULE Spec2Model ----
(***************************************************************************)
(* Model of agent/crewai_sample_agent/agent.py: the MCP session manager    *)
(* (MCPToolManager), the catalog unifier (convert_mcp_tool_to_json_format) *)
(* and the bounded recursive dispatch loop of SampleAgentFlow.             *)
(*                                                                         *)
(* Python values are modelled structurally: a str is the tuple of its      *)
(* concatenated pieces tagged "str", None is the tuple <<"None">>, a JSON  *)
(* object is the set of its <<key, value>> pairs, a list is a sequence, a  *)
(* dict of the program is a function on its keys.                          *)
(***************************************************************************)
EXTENDS Integers, Sequences, FiniteSets, TLC

\* ------------------------------------------------------------------ bounds
\* Providers per configuration explored by InitServers.
MaxProviders == 2
\* Model calls of a run, counted from its start, whose answer is drawn from
\* the whole of Responses; later answers are drawn from Terse.
MaxFreeCalls == 1
\* Chat runs on one flow instance.
MaxRuns == 2

\* ------------------------------------------------------- program constants
\* self.MAX_TOOL_CALLS = 10
MAX_TOOL_CALLS == 10

\* ---------------------------------------------------------- python values
None == <<"None">>
Str(pieces) == <<"str">> \o pieces

\* str(x) of the values that reach it: a str is itself, another object its repr.
str(x) == IF x[1] = "str" THEN x ELSE Str(x)

RECURSIVE SeqToSet(_)
SeqToSet(s) == IF s = <<>> THEN {} ELSE {Head(s)} \cup SeqToSet(Tail(s))

\* ------------------------------------------------- provider-native tools
\* An mcp Tool object: which attributes it has and what they hold.
\* description: <<"absent">> (no attribute), None, or a str.
\* inputSchema: [kind |-> "None" | "list" | "dict", keys |-> the dict's keys].
SchemaProperties == {<<"a", "number">>, <<"b", "number">>}
SchemaRequired == <<"a", "b">>
SchemaFull == [kind |-> "dict", keys |-> {"properties", "required"}]

Tool(n) ==
    [name |-> n, hasName |-> TRUE, hasInputSchema |-> TRUE,
     description |-> Str(<<"provider tool ", n>>), inputSchema |-> SchemaFull]

\* A tool object without an inputSchema attribute.
BrokenTool(n) == [Tool(n) EXCEPT !.hasInputSchema = FALSE]

\* convert_mcp_tool_to_json_format: raised is the ValueError of line 74.
convert_mcp_tool_to_json_format(tool) ==
    IF ~tool.hasName \/ ~tool.hasInputSchema
    THEN [raised |-> TRUE]
    ELSE LET isDict == tool.inputSchema.kind = "dict" /\ tool.inputSchema.keys # {}
             properties == IF isDict /\ "properties" \in tool.inputSchema.keys
                           THEN SchemaProperties ELSE {}
             required == IF isDict /\ "required" \in tool.inputSchema.keys
                         THEN SchemaRequired ELSE <<>>
         IN [raised |-> FALSE,
             name |-> tool.name,
             description |-> IF tool.description = <<"absent">>
                             THEN Str(<<"Tool: ", tool.name>>)
                             ELSE tool.description,
             properties |-> properties,
             required |-> required]

\* ------------------------------------------------------ local built-ins
\* tool_handlers: the names with a local handler.
tool_handlers == {"get_weather"}

\* GET_WEATHER_TOOL as offered to the model.
GET_WEATHER_TOOL == [name |-> "get_weather"]

HasKey(d, k) == \E kv \in d : kv[1] = k
Get(d, k) == (CHOOSE kv \in d : kv[1] = k)[2]

\* The one handler, lambda args: f"The weather for {args['location']} is 70
\* degrees.": args['location'] raises KeyError when the key is absent.
get_weather_handler(args) ==
    IF HasKey(args, "location")
    THEN [raised |-> FALSE,
          value |-> Str(<<"The weather for ", Get(args, "location"), " is 70 degrees.">>)]
    ELSE [raised |-> TRUE, value |-> None]

\* ---------------------------------------------------------- json.loads
ArgsBoston == "{\"location\": \"Boston, MA\"}"
ArgsEmpty == "{}"
ArgsMalformed == "{\"location\": "

\* json.loads on the argument strings the model sends: ok is FALSE for a
\* JSONDecodeError.
json_loads(s) ==
    CASE s = ArgsBoston -> [ok |-> TRUE, value |-> {<<"location", "Boston, MA">>}]
      [] s = ArgsEmpty -> [ok |-> TRUE, value |-> {}]
      [] OTHER -> [ok |-> FALSE, value |-> {}]

\* Lines 328-331: a JSONDecodeError degrades to {}.
ParseArgs(s) == IF json_loads(s).ok THEN json_loads(s).value ELSE {}

\* -------------------------------------------------------------- dicts
EmptyDict == <<>>
DictSet(d, k, v) == [x \in DOMAIN d \cup {k} |-> IF x = k THEN v ELSE d[x]]

\* d.update({tool.name: (session, tool) for tool in tools}): keys are set in
\* list order, a later tool of the same name replacing an earlier one, and
\* an existing key of d is overwritten.
RECURSIVE DictUpdate(_, _, _)
DictUpdate(d, session, tools) ==
    IF tools = <<>> THEN d
    ELSE DictUpdate(DictSet(d, Head(tools).name, [session |-> session, tool |-> Head(tools)]),
                    session, Tail(tools))

\* A conversion that leaves out the tools it cannot convert.
RECURSIVE MapConvertSkipInvalid(_)
MapConvertSkipInvalid(tools) ==
    IF tools = <<>> THEN <<>>
    ELSE IF convert_mcp_tool_to_json_format(Head(tools)).raised
         THEN MapConvertSkipInvalid(Tail(tools))
         ELSE <<convert_mcp_tool_to_json_format(Head(tools))>> \o MapConvertSkipInvalid(Tail(tools))

\* mcp_tools_json = [convert_mcp_tool_to_json_format(tool) for tool in tools]
RECURSIVE MapConvert(_)
MapConvert(tools) ==
    IF tools = <<>> THEN <<>>
    ELSE <<convert_mcp_tool_to_json_format(Head(tools))>> \o MapConvert(Tail(tools))

\* ------------------------------------------------------ configurations
\* One entry of MCPConfig: its transport value and the tools its server lists.
Provider(transport, tools) == [transport |-> transport, tools |-> tools]

ProviderShapes ==
    { Provider("stdio", <<Tool("add")>>),
      Provider("sse", <<Tool("add"), Tool("get_weather"), Tool("ui")>>),
      Provider("sse", <<Tool("mul"), BrokenTool("div")>>),
      Provider("stdio", <<>>),
      Provider("websocket", <<Tool("mul")>>) }

RECURSIVE SeqsUpTo(_, _)
SeqsUpTo(S, n) ==
    IF n = 0 THEN {<<>>}
    ELSE LET shorter == SeqsUpTo(S, n - 1)
         IN shorter \cup {Append(s, x) : s \in {t \in shorter : Len(t) = n - 1}, x \in S}

\* Every configuration of at most MaxProviders servers, in iteration order.
Configs == SeqsUpTo(ProviderShapes, MaxProviders)

\* The configurations the dispatch loop is explored under.
RunConfigs ==
    { <<Provider("stdio", <<Tool("add")>>)>>,
      <<Provider("sse", <<Tool("add"), Tool("get_weather"), Tool("ui")>>)>> }

\* The inputSchema values a server may send: None, a list, or a dict with
\* any of the two keys the conversion reads.
Schemas ==
    {[kind |-> "None", keys |-> {}], [kind |-> "list", keys |-> {}]}
      \cup {[kind |-> "dict", keys |-> K] : K \in SUBSET {"properties", "required"}}

\* Tool objects with and without each attribute the conversion looks at.
ToolObjects ==
    {[name |-> n, hasName |-> hn, hasInputSchema |-> hs, description |-> d, inputSchema |-> s] :
       n \in {"add", "mul"}, hn \in BOOLEAN, hs \in BOOLEAN,
       d \in {<<"absent">>, None, Str(<<"adds two numbers">>)}, s \in Schemas}

\* One server listing one tool object.
ConvertConfigs == {<<Provider("stdio", <<t>>)>> : t \in ToolObjects}

\* The configuration successive runs are explored under.
RunsConfigs == {<<Provider("stdio", <<Tool("add")>>)>>}

\* state.copilotkit.actions, by name.
HostActions == {"ui"}

\* --------------------------------------------------------------- state
VARIABLES
    pc,               \* where the flow is: idle, init, llm, handle, exec, cleanup, returned
    run,              \* number of chat runs started on this flow instance
    mcp_config,       \* state.mcp_config, in iteration order
    actions,          \* names of state.copilotkit.actions
    srv,              \* initialize_servers: index of the next server of the for loop
    exit_stack,       \* mcp_manager.exit_stack: the contexts entered, in order
    aexit,            \* every context ever entered -> number of __aexit__ calls on it
    active_sessions,  \* mcp_manager.active_sessions: server -> session
    all_tools,        \* initialize_servers' all_tools (chat's mcp_tools)
    tool_origin,      \* for each entry of all_tools, the server it came from
    mcp_tools_dict,   \* tool name -> [session, tool]
    outcome,          \* per server of this run: what its initialization came to
    messages,         \* state.messages
    tool_call_count,  \* self.tool_call_count
    tool_calls,       \* handle_tool_calls' tool_calls
    tc,               \* index of the next tool call of the for loop
    llm_calls,        \* model calls made in this run
    exec_rounds,      \* rounds of this run in which the for loop was entered
    rounds_total,     \* such rounds over all runs of this flow instance
    invoked,          \* every handler or session invocation of this run, in order
    raised            \* the exception that ended the try block of chat in this run

vars == <<pc, run, mcp_config, actions, srv, exit_stack, aexit, active_sessions,
          all_tools, tool_origin, mcp_tools_dict, outcome, messages,
          tool_call_count, tool_calls, tc, llm_calls, exec_rounds, rounds_total,
          invoked, raised>>

managerVars == <<exit_stack, aexit, active_sessions, all_tools, tool_origin,
                 mcp_tools_dict, outcome, srv>>
loopVars == <<messages, tool_call_count, tool_calls, tc, llm_calls, exec_rounds, rounds_total,
              invoked, raised>>

\* A context manager entered on the exit stack: the transport or the
\* ClientSession of server i in run r.
Res(r, i, kind) == <<kind, r, i>>
Session(r, i) == Res(r, i, "session")

UserMessage ==
    [role |-> "user", content |-> Str(<<"What's the weather in Boston?">>),
     tool_calls |-> <<>>, tool_call_id |-> 0]

\* SampleAgentFlow.__init__ and MCPToolManager.__init__.
InitWith(configs) ==
    /\ pc = "idle"
    /\ run = 0
    /\ mcp_config \in configs
    /\ actions = HostActions
    /\ srv = 1
    /\ exit_stack = <<>>
    /\ aexit = EmptyDict
    /\ active_sessions = EmptyDict
    /\ all_tools = <<>>
    /\ tool_origin = <<>>
    /\ mcp_tools_dict = EmptyDict
    /\ outcome = EmptyDict
    /\ messages = <<>>
    /\ tool_call_count = 0
    /\ tool_calls = <<>>
    /\ tc = 1
    /\ llm_calls = 0
    /\ exec_rounds = 0
    /\ rounds_total = 0
    /\ invoked = <<>>
    /\ raised = "none"

Init == InitWith(RunConfigs)
InitServers == InitWith(Configs)

\* ------------------------------------------------------ session manager
\* The step of _initialize_stdio_server / _initialize_sse_server that fails.
ConnectOutcomes == {"ok", "open", "enter_session", "initialize", "list_tools", "format"}

\* The contexts enter_async_context has pushed before `step` fails: the
\* transport is entered before the session, and a failure of initialize(),
\* of list_tools() or an unexpected response comes after both.
Entered(r, i, step) ==
    CASE step = "open" -> <<>>
      [] step = "enter_session" -> <<Res(r, i, "transport")>>
      [] OTHER -> <<Res(r, i, "transport"), Session(r, i)>>

\* _initialize_stdio_server: (session, tools), or (None, []) from the
\* except clause and from the unexpected-format branch.
initialize_stdio_server(r, i, config, step) ==
    [session |-> IF step = "ok" THEN Session(r, i) ELSE None,
     tools |-> IF step = "ok" THEN config.tools ELSE <<>>,
     entered |-> Entered(r, i, step)]

\* _initialize_sse_server: the same steps over sse_client.
initialize_sse_server(r, i, config, step) ==
    [session |-> IF step = "ok" THEN Session(r, i) ELSE None,
     tools |-> IF step = "ok" THEN config.tools ELSE <<>>,
     entered |-> Entered(r, i, step)]

\* The dispatch table updated before the tools are converted.
RegisterBeforeConvert(d, session, tools) == DictUpdate(d, session, tools)

\* Lines 125-126: the list comprehension converts every tool before the
\* dispatch table is touched, so a ValueError leaves the table as it was.
RegisterTools(d, session, tools) ==
    IF \E k \in 1..Len(tools) : convert_mcp_tool_to_json_format(tools[k]).raised
    THEN d
    ELSE DictUpdate(d, session, tools)

\* `if session and tools:`: a session object is truthy, None and [] are not.
Contributes(session, tools) == session # None /\ tools # <<>>

Enter(a, entered) ==
    [x \in DOMAIN a \cup SeqToSet(entered) |-> IF x \in DOMAIN a THEN a[x] ELSE 0]

\* The route_follow_up / start event: start_flow runs and chat begins, up to
\* the first await of initialize_servers. The host has put the user's
\* message into state.messages.
StartFlow ==
    /\ pc = "idle"
    /\ pc' = "init"
    /\ run' = run + 1
    /\ srv' = 1
    /\ all_tools' = <<>>
    /\ tool_origin' = <<>>
    /\ mcp_tools_dict' = EmptyDict
    /\ outcome' = [i \in 1..Len(mcp_config) |-> "pending"]
    /\ messages' = Append(messages, UserMessage)
    /\ llm_calls' = 0
    /\ exec_rounds' = 0
    /\ invoked' = <<>>
    /\ raised' = "none"
    /\ tool_calls' = <<>>
    /\ tc' = 1
    /\ UNCHANGED <<mcp_config, actions, exit_stack, aexit, active_sessions, tool_call_count,
                   rounds_total>>

\* A chat that begins every run with the counter at 0.
FollowUpResets ==
    /\ pc = "returned"
    /\ run < MaxRuns
    /\ pc' = "init"
    /\ run' = run + 1
    /\ srv' = 1
    /\ all_tools' = <<>>
    /\ tool_origin' = <<>>
    /\ mcp_tools_dict' = EmptyDict
    /\ outcome' = [i \in 1..Len(mcp_config) |-> "pending"]
    /\ messages' = Append(messages, UserMessage)
    /\ llm_calls' = 0
    /\ exec_rounds' = 0
    /\ invoked' = <<>>
    /\ raised' = "none"
    /\ tool_calls' = <<>>
    /\ tc' = 1
    /\ tool_call_count' = 0
    /\ UNCHANGED <<mcp_config, actions, exit_stack, aexit, active_sessions, rounds_total>>

\* The next chat run on the same flow instance, after the one before has
\* returned: start_flow and chat again, on the same manager, the same
\* state.messages and the same tool_call_count.
FollowUp ==
    /\ pc = "returned"
    /\ run < MaxRuns
    /\ pc' = "init"
    /\ run' = run + 1
    /\ srv' = 1
    /\ all_tools' = <<>>
    /\ tool_origin' = <<>>
    /\ mcp_tools_dict' = EmptyDict
    /\ outcome' = [i \in 1..Len(mcp_config) |-> "pending"]
    /\ messages' = Append(messages, UserMessage)
    /\ llm_calls' = 0
    /\ exec_rounds' = 0
    /\ invoked' = <<>>
    /\ raised' = "none"
    /\ tool_calls' = <<>>
    /\ tc' = 1
    /\ UNCHANGED <<mcp_config, actions, exit_stack, aexit, active_sessions, tool_call_count,
                   rounds_total>>

\* One iteration of the for loop of initialize_servers.
InitServer ==
    /\ pc = "init"
    /\ srv <= Len(mcp_config)
    /\ LET config == mcp_config[srv] IN
       IF config.transport \notin {"stdio", "sse"}
       THEN \* unsupported transport: print and continue
            /\ outcome' = [outcome EXCEPT ![srv] = "transport"]
            /\ UNCHANGED <<exit_stack, aexit, active_sessions, all_tools, tool_origin,
                           mcp_tools_dict>>
       ELSE \E step \in ConnectOutcomes :
            LET got == IF config.transport = "stdio"
                       THEN initialize_stdio_server(run, srv, config, step)
                       ELSE initialize_sse_server(run, srv, config, step)
                json == MapConvert(got.tools)
                raises == \E k \in 1..Len(json) : json[k].raised
            IN /\ exit_stack' = exit_stack \o got.entered
               /\ aexit' = Enter(aexit, got.entered)
               /\ IF Contributes(got.session, got.tools)
                  THEN /\ active_sessions' = DictSet(active_sessions, srv, got.session)
                       /\ IF raises
                          THEN \* the ValueError of the list comprehension ends the try block
                               /\ outcome' = [outcome EXCEPT ![srv] = "convert"]
                               /\ mcp_tools_dict' = RegisterTools(mcp_tools_dict, got.session, got.tools)
                               /\ UNCHANGED <<all_tools, tool_origin>>
                          ELSE /\ mcp_tools_dict' = RegisterTools(mcp_tools_dict, got.session, got.tools)
                               /\ all_tools' = all_tools \o json
                               /\ tool_origin' = tool_origin \o [k \in 1..Len(json) |-> srv]
                               /\ outcome' = [outcome EXCEPT ![srv] = "ok"]
                  ELSE /\ outcome' = [outcome EXCEPT ![srv] = IF step = "ok" THEN "empty" ELSE step]
                       /\ UNCHANGED <<active_sessions, all_tools, tool_origin, mcp_tools_dict>>
    /\ srv' = srv + 1
    /\ UNCHANGED <<pc, run, mcp_config, actions>>
    /\ UNCHANGED loopVars

\* mcp_tool_names = [tool["function"]["name"] for tool in mcp_tools]
mcp_tool_names == [k \in 1..Len(all_tools) |-> all_tools[k].name]

\* initialize_servers returns; chat builds tool_context and makes the
\* initial call of process_llm_call.
InitReturn ==
    /\ pc = "init"
    /\ srv > Len(mcp_config)
    /\ pc' = "llm"
    /\ UNCHANGED <<run, mcp_config, actions>>
    /\ UNCHANGED managerVars
    /\ UNCHANGED loopVars

\* execute_tool: ok is whether session.call_tool returns; any exception it
\* raises is turned into a string.
execute_tool(tool_name, dict, ok) ==
    IF tool_name \notin DOMAIN dict
    THEN Str(<<"Tool ", tool_name, " not found in available MCP tools">>)
    ELSE IF ok THEN <<"CallToolResult", tool_name>>
         ELSE Str(<<"Error executing tool ", tool_name, ": ", "call_tool failed">>)

\* aclose giving up at the first __aexit__ that raises: the contexts below
\* it (entered before it) are left open.
UnwoundUntilFailure(stack, failing) ==
    {stack[k] : k \in {j \in 1..Len(stack) : \A m \in (j + 1)..Len(stack) : stack[m] \notin failing}}

\* The contexts whose __aexit__ AsyncExitStack.aclose calls: all of them,
\* whether or not one of them raises.
Unwound(stack, failing) == SeqToSet(stack)

\* cleanup (the finally clause of chat) and chat's return of "route_end".
\* failing: the contexts whose __aexit__ raises; aclose re-raises after the
\* stack is unwound, so the assignment of line 211 is skipped.
Cleanup ==
    /\ pc = "cleanup"
    /\ \E failing \in SUBSET SeqToSet(exit_stack) :
         /\ aexit' = [x \in DOMAIN aexit |->
                        IF x \in Unwound(exit_stack, failing) THEN aexit[x] + 1 ELSE aexit[x]]
         /\ exit_stack' = <<>>
         /\ active_sessions' = IF failing = {} THEN EmptyDict ELSE active_sessions
    /\ pc' = "returned"
    /\ UNCHANGED <<run, mcp_config, actions, srv, all_tools, tool_origin, mcp_tools_dict,
                   outcome>>
    /\ UNCHANGED loopVars

\* A second call of cleanup by the owner of the manager, after chat has
\* returned: the same method on the state the first call left.
CleanupAgain ==
    /\ pc = "returned"
    /\ \E failing \in SUBSET SeqToSet(exit_stack) :
         /\ aexit' = [x \in DOMAIN aexit |->
                        IF x \in Unwound(exit_stack, failing) THEN aexit[x] + 1 ELSE aexit[x]]
         /\ exit_stack' = <<>>
         /\ active_sessions' = IF failing = {} THEN EmptyDict ELSE active_sessions
    /\ pc' = "cleaned"
    /\ UNCHANGED <<run, mcp_config, actions, srv, all_tools, tool_origin, mcp_tools_dict,
                   outcome>>
    /\ UNCHANGED loopVars

\* -------------------------------------------------------- dispatch loop
\* What the model may ask for: a tool name and an arguments string.
Call(n, a) == [name |-> n, arguments |-> a]

CallKinds ==
    { Call("get_weather", ArgsBoston),
      Call("get_weather", ArgsMalformed),
      Call("add", ArgsEmpty),
      Call("ui", ArgsMalformed),
      Call("nope", ArgsEmpty) }

\* The tool-call lists of an assistant message: none, one call or two.
Responses ==
    {<<>>} \cup {<<c>> : c \in CallKinds} \cup {<<c, d>> : c \in CallKinds, d \in CallKinds}

\* A model that either answers or keeps asking for a tool nobody offers.
Terse == {<<>>, <<Call("nope", ArgsEmpty)>>}

RECURSIVE IssuedCalls(_)
IssuedCalls(msgs) ==
    IF msgs = <<>> THEN 0 ELSE Len(Head(msgs).tool_calls) + IssuedCalls(Tail(msgs))

\* The model gives every tool call a fresh id.
Numbered(resp, base) ==
    [k \in 1..Len(resp) |->
        [id |-> base + k, name |-> resp[k].name, arguments |-> resp[k].arguments]]

AssistantMessage(calls) ==
    [role |-> "assistant", content |-> Str(<<"assistant">>),
     tool_calls |-> calls, tool_call_id |-> 0]

\* A tool message that does not carry the id of its call.
ToolMessageUncorrelated(result, id) ==
    [role |-> "tool", content |-> str(result), tool_calls |-> <<>>, tool_call_id |-> 0]

ToolMessage(result, id) ==
    [role |-> "tool", content |-> str(result), tool_calls |-> <<>>, tool_call_id |-> id]

\* A process_llm_call that keeps the answer out of the conversation when
\* its tool calls will not be executed because the limit is reached.
ProcessLLMCallDropsAtLimit(answers) ==
    /\ pc = "llm"
    /\ \E resp \in answers :
         /\ resp \in Terse \/ llm_calls < MaxFreeCalls
         /\ LET message == AssistantMessage(Numbered(resp, IssuedCalls(messages)))
                dropped == message.tool_calls # <<>> /\ tool_call_count + 1 >= MAX_TOOL_CALLS
            IN /\ messages' = IF dropped THEN messages ELSE Append(messages, message)
               /\ tool_calls' = message.tool_calls
               /\ pc' = IF message.tool_calls # <<>> THEN "handle" ELSE "cleanup"
    /\ llm_calls' = llm_calls + 1
    /\ UNCHANGED <<run, mcp_config, actions, tool_call_count, tc, exec_rounds,
                   rounds_total, invoked, raised>>
    /\ UNCHANGED managerVars

\* process_llm_call when copilotkit_stream(completion(...)) returns: the
\* message is appended, and handle_tool_calls is entered if it carries
\* tool calls; otherwise the recursion unwinds and chat returns.
ProcessLLMCall(answers) ==
    /\ pc = "llm"
    /\ \E resp \in answers :
         /\ resp \in Terse \/ llm_calls < MaxFreeCalls
         /\ LET message == AssistantMessage(Numbered(resp, IssuedCalls(messages)))
            IN /\ messages' = Append(messages, message)
               /\ tool_calls' = message.tool_calls
               /\ pc' = IF message.tool_calls # <<>> THEN "handle" ELSE "cleanup"
    /\ llm_calls' = llm_calls + 1
    /\ UNCHANGED <<run, mcp_config, actions, tool_call_count, tc, exec_rounds,
                   rounds_total, invoked, raised>>
    /\ UNCHANGED managerVars

\* process_llm_call when the model invocation raises: the exception leaves
\* every frame of the recursion and is handled by chat's except clause.
LLMCallRaises ==
    /\ pc = "llm"
    /\ llm_calls' = llm_calls + 1
    /\ raised' = "InvocationError"
    /\ pc' = "cleanup"
    /\ UNCHANGED <<run, mcp_config, actions, messages, tool_call_count, tool_calls, tc,
                   exec_rounds, rounds_total, invoked>>
    /\ UNCHANGED managerVars

\* The limit never consulted.
NoLimit(count) == FALSE

\* `if self.tool_call_count >= self.MAX_TOOL_CALLS`
BoundReached(count) == count >= MAX_TOOL_CALLS

\* handle_tool_calls up to the for loop: the counter and the limit.
HandleToolCalls ==
    /\ pc = "handle"
    /\ tool_call_count' = tool_call_count + 1
    /\ IF BoundReached(tool_call_count')
       THEN /\ pc' = "cleanup"
            /\ UNCHANGED <<tc, exec_rounds, rounds_total>>
       ELSE /\ pc' = "exec"
            /\ tc' = 1
            /\ exec_rounds' = exec_rounds + 1
            /\ rounds_total' = rounds_total + 1
    /\ UNCHANGED <<run, mcp_config, actions, messages, tool_calls, llm_calls, invoked, raised>>
    /\ UNCHANGED managerVars

\* The local handlers consulted before the provider tools.
RouteLocalFirst(name) ==
    IF name \in actions THEN "skip"
    ELSE IF name \in tool_handlers THEN "handler"
    ELSE IF name \in SeqToSet(mcp_tool_names) THEN "mcp"
    ELSE "unknown"

\* The host-action test made after the provider test.
RouteMcpBeforeHost(name) ==
    IF name \in SeqToSet(mcp_tool_names) THEN "mcp"
    ELSE IF name \in actions THEN "skip"
    ELSE IF name \in tool_handlers THEN "handler"
    ELSE "unknown"

\* Every name without a local handler handed to execute_tool.
RouteRestToManager(name) ==
    IF name \in actions THEN "skip"
    ELSE IF name \in tool_handlers /\ name \notin SeqToSet(mcp_tool_names) THEN "handler"
    ELSE "mcp"

\* chat's tool_context; its all_tools is what the model is offered: the host
\* actions, GET_WEATHER_TOOL and the provider catalog.
tool_context ==
    [all_tools |-> [host |-> actions, builtin |-> GET_WEATHER_TOOL, mcp |-> all_tools],
     mcp_tool_names |-> mcp_tool_names,
     mcp_tools_dict |-> mcp_tools_dict]

\* Where the for loop sends a tool call: lines 335, 343, 353-357.
Route(name) ==
    IF name \in actions THEN "skip"
    ELSE IF name \in SeqToSet(tool_context.mcp_tool_names) THEN "mcp"
    ELSE IF name \in tool_handlers THEN "handler"
    ELSE "unknown"

Invocation(call, by, session, args) ==
    [id |-> call.id, name |-> call.name, by |-> by, session |-> session, args |-> args]

\* After an iteration of the for loop: the next tool call, or the recursive
\* process_llm_call.
NextCall ==
    IF tc = Len(tool_calls)
    THEN pc' = "llm" /\ tc' = tc
    ELSE pc' = "exec" /\ tc' = tc + 1

\* One iteration of the for loop of handle_tool_calls.
ExecToolCall ==
    /\ pc = "exec"
    /\ LET call == tool_calls[tc]
           tool_call_args == ParseArgs(call.arguments)
           route == Route(call.name)
       IN CASE route = "skip" ->
                 /\ NextCall
                 /\ UNCHANGED <<messages, invoked, raised>>
            [] route = "mcp" ->
                 \E ok \in BOOLEAN :
                   LET dict == tool_context.mcp_tools_dict
                       result == execute_tool(call.name, dict, ok)
                       session == IF call.name \in DOMAIN dict
                                  THEN dict[call.name].session ELSE None
                   IN /\ messages' = Append(messages, ToolMessage(result, call.id))
                      /\ invoked' = Append(invoked,
                                           Invocation(call, "session", session, tool_call_args))
                      /\ NextCall
                      /\ UNCHANGED raised
            [] route = "handler" ->
                 LET r == get_weather_handler(tool_call_args)
                 IN /\ invoked' = Append(invoked, Invocation(call, "handler", None, tool_call_args))
                    /\ IF r.raised
                       THEN \* the KeyError leaves handle_tool_calls and ends the try block of chat
                            /\ raised' = "KeyError"
                            /\ pc' = "cleanup"
                            /\ UNCHANGED <<messages, tc>>
                       ELSE /\ messages' = Append(messages, ToolMessage(r.value, call.id))
                            /\ NextCall
                            /\ UNCHANGED raised
            [] OTHER ->
                 /\ messages' = Append(messages,
                                       ToolMessage(Str(<<"Unknown tool: ", call.name>>), call.id))
                 /\ NextCall
                 /\ UNCHANGED <<invoked, raised>>
    /\ UNCHANGED <<run, mcp_config, actions, tool_call_count, tool_calls, llm_calls, exec_rounds,
                   rounds_total>>
    /\ UNCHANGED managerVars

\* A cancellation of the task running chat, delivered at an await of
\* initialize_servers, of the model call or of a tool execution:
\* CancelledError is no Exception, so only the finally clause handles it.
Cancel ==
    /\ pc \in {"init", "llm", "exec"}
    /\ raised' = "CancelledError"
    /\ pc' = "cleanup"
    /\ UNCHANGED <<run, mcp_config, actions, messages, tool_call_count, tool_calls, tc,
                   llm_calls, exec_rounds, rounds_total, invoked>>
    /\ UNCHANGED managerVars

\* A chat without the except clause: every exception reaches the flow.
chat_reraises == IF raised = "none" THEN "route_end" ELSE raised

\* What chat hands back to the flow once the finally clause is done.
chat_result == IF raised = "CancelledError" THEN "CancelledError" ELSE "route_end"

\* ------------------------------------------------------ specifications
\* One chat run of a flow, with a model free in its first answers.
Next ==
    \/ StartFlow
    \/ InitServer
    \/ InitReturn
    \/ ProcessLLMCall(Responses)
    \/ LLMCallRaises
    \/ HandleToolCalls
    \/ ExecToolCall
    \/ Cancel
    \/ Cleanup

Spec == Init /\ [][Next]_vars

\* The session manager under every configuration, with a model that answers
\* at once.
NextServers ==
    \/ StartFlow
    \/ InitServer
    \/ InitReturn
    \/ ProcessLLMCall({<<>>})
    \/ Cleanup

SpecServers == InitServers /\ [][NextServers]_vars

\* convert_mcp_tool_to_json_format applied by initialize_servers to every
\* tool object of ToolObjects.
InitConvert == InitWith(ConvertConfigs)

SpecConvert == InitConvert /\ [][NextServers]_vars

\* Successive chat runs on one flow instance, with a model that answers
\* with no tool call or with one.
InitRuns == InitWith(RunsConfigs)

NextRuns ==
    \/ StartFlow
    \/ InitServer
    \/ InitReturn
    \/ ProcessLLMCall(Terse)
    \/ HandleToolCalls
    \/ ExecToolCall
    \/ Cleanup
    \/ FollowUp

SpecRuns == InitRuns /\ [][NextRuns]_vars

\* The session manager with cleanup called a second time after the run.
NextTeardown ==
    \/ NextServers
    \/ CleanupAgain

SpecTeardown == InitServers /\ [][NextTeardown]_vars


\* ---------------------------------------------------------------- claims
Returned == pc = "returned"

\* initialize_servers has returned in the current run.
Initialized == pc \in {"llm", "handle", "exec", "cleanup", "returned"}

StackSet == SeqToSet(exit_stack)

\* The sessions of this run whose handshake and list_tools succeeded.
ReadySessions ==
    {Session(run, i) : i \in {j \in DOMAIN outcome : outcome[j] \in {"ok", "empty", "convert"}}}

\* C1: on every exit path of chat (the model answers without tool calls, the
\* iteration bound is reached, an exception or a cancellation ends the try
\* block), once chat has returned every session that became Ready in the run,
\* and every other context entered on the exit stack, has had __aexit__
\* called exactly once and nothing is left on the stack; no context is ever
\* closed twice.
C1_ClosedExactlyOnce ==
    /\ \A x \in DOMAIN aexit : aexit[x] <= 1
    /\ Returned =>
         /\ exit_stack = <<>>
         /\ ReadySessions \subseteq DOMAIN aexit
         /\ \A x \in DOMAIN aexit : aexit[x] = 1

\* A run that a KeyError of the local handler ended, with a Ready session
\* closed by the cleanup.
C1_Witness ==
    /\ Returned
    /\ raised = "KeyError"
    /\ Session(1, 1) \in ReadySessions
    /\ aexit[Session(1, 1)] = 1

\* C2: the rounds of a run in which the pending tool calls are executed never
\* exceed MAX_TOOL_CALLS, and tool_call_count never decreases or is reset
\* and grows with every such round.
C2_BoundedRounds ==
    /\ exec_rounds <= MAX_TOOL_CALLS
    /\ [][/\ exec_rounds' <= MAX_TOOL_CALLS
          /\ tool_call_count' >= tool_call_count
          /\ exec_rounds' > exec_rounds => tool_call_count' > tool_call_count]_vars

\* The counter has reached the bound and the run has ended on it.
C2_Witness ==
    /\ Returned
    /\ tool_call_count = MAX_TOOL_CALLS
    /\ exec_rounds = MAX_TOOL_CALLS - 1


\* Chat has returned "route_end": the run is over and was not cancelled.
Terminal == Returned /\ chat_result = "route_end"

\* The messages of the current run: those after the user's last message.
RunStart ==
    IF \E k \in 1..Len(messages) : messages[k].role = "user"
    THEN CHOOSE k \in 1..Len(messages) :
           /\ messages[k].role = "user"
           /\ \A j \in (k + 1)..Len(messages) : messages[j].role # "user"
    ELSE 0

RunMessages == {k \in (RunStart + 1)..Len(messages) : TRUE}
RunAssistant == {k \in RunMessages : messages[k].role = "assistant"}
HasResult(id) ==
    \E j \in 1..Len(messages) : messages[j].role = "tool" /\ messages[j].tool_call_id = id

\* C3: on a fresh flow, when every model call of the run returned a message
\* with tool calls, the run ends after exactly MAX_TOOL_CALLS model calls
\* with the counter at MAX_TOOL_CALLS and the last assistant message's tool
\* calls not executed.
C3_ExactlyNIterations ==
    ( /\ Terminal
      /\ run = 1
      /\ raised # "InvocationError"
      /\ \A k \in RunAssistant : messages[k].tool_calls # <<>> )
    => /\ llm_calls = MAX_TOOL_CALLS
       /\ tool_call_count = MAX_TOOL_CALLS
       /\ messages[Len(messages)].role = "assistant"
       /\ \A k \in 1..Len(tool_calls) : ~HasResult(tool_calls[k].id)

\* C4: at Terminal every tool call of an assistant message whose name is no
\* host action has a tool message carrying its id.
C4_NoResultDropped ==
    Terminal =>
      \A k \in 1..Len(messages) :
        \A c \in 1..Len(messages[k].tool_calls) :
          messages[k].tool_calls[c].name \notin actions
            => HasResult(messages[k].tool_calls[c].id)

ToolNamesOf(i) == {mcp_config[i].tools[k].name : k \in 1..Len(mcp_config[i].tools)}
CatalogEntriesOf(i) == {j \in 1..Len(all_tools) : tool_origin[j] = i}
Failed(i) == outcome[i] \notin {"ok", "empty"}

\* C5: once initialize_servers has returned, every server of the
\* configuration has been processed, whichever of them failed; every tool
\* of a server that did not fail is in the catalog and in the dispatch
\* table; no catalog entry and no dispatch entry comes from a failed server.
C5_ProviderIsolation ==
    Initialized =>
      \A i \in DOMAIN outcome :
        /\ outcome[i] # "pending"
        /\ ~Failed(i) =>
             \A n \in ToolNamesOf(i) :
               /\ n \in DOMAIN mcp_tools_dict
               /\ \E j \in CatalogEntriesOf(i) : all_tools[j].name = n
        /\ Failed(i) =>
             /\ CatalogEntriesOf(i) = {}
             /\ \A n \in DOMAIN mcp_tools_dict : mcp_tools_dict[n].session # Session(run, i)

\* The first server failed its handshake and the second registered its tools.
C5_Witness ==
    /\ Initialized
    /\ Len(mcp_config) = 2
    /\ outcome[1] = "initialize"
    /\ outcome[2] = "ok"
    /\ ToolNamesOf(1) # {}
    /\ DOMAIN mcp_tools_dict = ToolNamesOf(2)

ConnectFailed(i) ==
    outcome[i] \in {"open", "enter_session", "initialize", "list_tools", "format"}

\* C6: when initialize_servers has returned, a server whose open, handshake
\* or list_tools step failed holds no open context, and every context still
\* open belongs to a Ready server whose tools are in the dispatch table.
C6_NoHalfOpenConnection ==
    (pc = "llm" /\ llm_calls = 0) =>
      /\ \A i \in DOMAIN outcome :
           ConnectFailed(i) => \A x \in StackSet : x[3] # i
      /\ \A x \in StackSet : outcome[x[3]] \in {"ok", "empty"}

FirstProvider(n) ==
    CHOOSE i \in DOMAIN outcome :
      /\ outcome[i] = "ok" /\ n \in ToolNamesOf(i)
      /\ \A j \in 1..(i - 1) : ~(outcome[j] = "ok" /\ n \in ToolNamesOf(j))

\* C7: a tool name that several registered servers expose maps, in the
\* dispatch table, to the session of the server registered first, and
\* occurs once in the catalog.
C7_FirstRegisteredWins ==
    Initialized =>
      \A n \in DOMAIN mcp_tools_dict :
        /\ mcp_tools_dict[n].session = Session(run, FirstProvider(n))
        /\ Cardinality({j \in 1..Len(all_tools) : all_tools[j].name = n}) = 1

InvokedSet == {invoked[k] : k \in 1..Len(invoked)}

\* The tool calls of the current round that the for loop is done with.
DoneCalls ==
    IF pc = "exec" THEN {tool_calls[k] : k \in 1..(tc - 1)}
    ELSE IF pc = "llm" /\ exec_rounds > 0 THEN SeqToSet(tool_calls)
    ELSE {}

Proceeds ==
    IF tc < Len(tool_calls) THEN pc' = "exec" /\ tc' = tc + 1 ELSE pc' = "llm"

\* No invocation and no tool message of this run belongs to a host action.
NoHostExecution ==
    /\ \A e \in InvokedSet : e.name \notin actions
    /\ \A k \in RunAssistant :
         \A c \in 1..Len(messages[k].tool_calls) :
           messages[k].tool_calls[c].name \in actions => ~HasResult(messages[k].tool_calls[c].id)

\* C9: no handler and no session is ever invoked for a call whose name is a
\* host action, no tool message carries the id of such a call, and the for
\* loop passes over it to the next pending call without an exception.
C9_HostActionBypass ==
    /\ NoHostExecution
    /\ [][/\ NoHostExecution'
          /\ (pc = "exec" /\ tool_calls[tc].name \in actions) =>
               /\ messages' = messages
               /\ invoked' = invoked
               /\ raised' = "CancelledError" \/ (raised' = raised /\ Proceeds)]_vars

\* A host action that a provider also registered was passed over and the
\* call after it got its result.
C9_Witness ==
    /\ pc = "llm"
    /\ Len(tool_calls) = 2
    /\ tool_calls[1].name \in actions
    /\ tool_calls[1].name \in DOMAIN mcp_tools_dict
    /\ ~HasResult(tool_calls[1].id)
    /\ HasResult(tool_calls[2].id)

\* C10: a call whose name is no host action, has no local handler and is
\* not in the dispatch table gets the tool message "Unknown tool: <name>"
\* under its id, and the loop proceeds to the next call or the model call.
C10_UnknownTool ==
    [][( /\ pc = "exec"
         /\ tool_calls[tc].name \notin actions
         /\ tool_calls[tc].name \notin tool_handlers
         /\ tool_calls[tc].name \notin DOMAIN mcp_tools_dict ) =>
         \/ raised' = "CancelledError" /\ messages' = messages
         \/ /\ messages' = Append(messages,
                                  [role |-> "tool",
                                   content |-> <<"str", "Unknown tool: ", tool_calls[tc].name>>,
                                   tool_calls |-> <<>>,
                                   tool_call_id |-> tool_calls[tc].id])
            /\ raised' = raised
            /\ invoked' = invoked
            /\ Proceeds]_vars

\* The model was called again after an unknown tool was answered.
C10_Witness ==
    /\ llm_calls = 2
    /\ raised = "none"
    /\ \E k \in RunMessages :
         /\ messages[k].role = "tool"
         /\ messages[k].content = <<"str", "Unknown tool: ", "nope">>

\* The tool message that the for loop appends for the call it is at.
ResultAppended ==
    /\ Len(messages') = Len(messages) + 1
    /\ SubSeq(messages', 1, Len(messages)) = messages
    /\ messages'[Len(messages')].role = "tool"
    /\ messages'[Len(messages')].tool_call_id = tool_calls[tc].id

\* The step executes the call the for loop is at, and the execution fails:
\* the local handler raises, or the provider's call_tool does.
ExecutionFails ==
    /\ pc = "exec"
    /\ invoked' # invoked
    /\ LET e == invoked'[Len(invoked')]
       IN \/ e.by = "handler" /\ get_weather_handler(e.args).raised
          \/ /\ e.by = "session"
             /\ messages' # messages
             /\ messages'[Len(messages')].content
                  = execute_tool(e.name, mcp_tools_dict, FALSE)

\* C11: whenever the execution of a tool fails, by a provider tool through
\* execute_tool or by a local handler, a tool message with the failure as
\* text is appended under the call's id, no exception leaves the dispatch
\* step, and the loop goes on to the next pending call or the model call.
C11_FailuresContained ==
    [][ExecutionFails => /\ ResultAppended
                         /\ messages'[Len(messages')].content[1] = "str"
                         /\ raised' = raised
                         /\ Proceeds]_vars

\* The for loop is at a call whose arguments are no JSON and whose name is
\* no host action.
MalformedCall ==
    /\ pc = "exec"
    /\ ~json_loads(tool_calls[tc].arguments).ok
    /\ tool_calls[tc].name \notin actions

\* C12: a pending call whose arguments string is malformed JSON is executed
\* with an empty argument object, a tool message is appended under its id,
\* and the for loop goes on to the remaining calls of the step; a
\* cancellation of the task aside.
C12_MalformedArguments ==
    [][MalformedCall =>
         \/ raised' = "CancelledError" /\ messages' = messages
         \/ /\ ResultAppended
            /\ raised' = raised
            /\ Proceeds
            /\ invoked' # invoked => invoked'[Len(invoked')].args = {}]_vars

InvocationFailed == raised = "InvocationError"

\* The model invocation fails in this step.
InvocationFails == ~InvocationFailed /\ InvocationFailed'

\* What C13 has in common as claimed and as amended: the failed call leaves
\* the conversation as it was and ends the try block; after it no model
\* call and no tool execution happens; chat returns only after the cleanup
\* has closed every context the run entered.
AbortsAndTearsDown ==
    /\ InvocationFails => messages' = messages /\ pc' = "cleanup"
    /\ InvocationFailed =>
         /\ raised' = raised
         /\ messages' = messages
         /\ llm_calls' = llm_calls
         /\ invoked' = invoked
         /\ tool_call_count' = tool_call_count
         /\ pc' = "returned"
    /\ (InvocationFailed' /\ pc' = "returned") =>
         /\ exit_stack' = <<>>
         /\ \A x \in SeqToSet(exit_stack) : aexit'[x] = 1

\* C13 as claimed: after the abort and the teardown the InvocationError
\* reaches the caller of chat.
C13_ErrorSurfaced ==
    [][/\ AbortsAndTearsDown
       /\ (InvocationFailed' /\ pc' = "returned") => chat_result' = "InvocationError"]_vars

\* C13 as amended: when the model invocation fails the run aborts at once
\* with the conversation unchanged by the failed call, the cleanup completes
\* before chat returns, and the error is not raised to the caller: chat's
\* except clause logs it and chat returns "route_end" as after a normal run.
C13_ErrorLogged ==
    [][/\ AbortsAndTearsDown
       /\ (InvocationFailed' /\ pc' = "returned") => chat_result' = "route_end"]_vars

\* The second model call of a run failed after a tool was executed, the
\* session was closed and chat returned.
C13_Witness ==
    /\ Returned
    /\ InvocationFailed
    /\ llm_calls = 2
    /\ invoked # <<>>
    /\ messages[Len(messages)].role = "tool"
    /\ aexit[Session(1, 1)] = 1

\* C14: a second call of cleanup leaves the state the first call left, in
\* which every entered context is closed and active_sessions is empty; it
\* closes nothing a second time.
C14_CleanupIdempotent ==
    [][(pc = "returned" /\ pc' = "cleaned") =>
         /\ exit_stack = <<>> /\ exit_stack' = exit_stack
         /\ aexit' = aexit
         /\ \A x \in DOMAIN aexit' : aexit'[x] <= 1
         /\ active_sessions = EmptyDict
         /\ active_sessions' = active_sessions]_vars

\* The first answer of a flow's first run carries tool calls, none of them
\* for a host action, the second answer carries none, and chat has returned.
SingleRound ==
    /\ Returned
    /\ run = 1
    /\ Cardinality(RunAssistant) = 2
    /\ messages[RunStart + 1].role = "assistant"
    /\ messages[RunStart + 1].tool_calls # <<>>
    /\ \A c \in 1..Len(messages[RunStart + 1].tool_calls) :
         messages[RunStart + 1].tool_calls[c].name \notin actions
    /\ messages[Len(messages)].role = "assistant"
    /\ messages[Len(messages)].tool_calls = <<>>

\* C15: in the single-round scenario the final conversation is the initial
\* one, the assistant message with the k calls, k tool messages in the
\* order of the calls, each with the id of its call, and the final
\* assistant message; the run is Terminal with tool_call_count = 1.
C15_SingleRoundConversation ==
    SingleRound =>
      LET calls == messages[RunStart + 1].tool_calls
          k == Len(calls)
      IN /\ SubSeq(messages, 1, RunStart) = <<UserMessage>>
         /\ Len(messages) = RunStart + k + 2
         /\ \A j \in 1..k :
              /\ messages[RunStart + 1 + j].role = "tool"
              /\ messages[RunStart + 1 + j].tool_call_id = calls[j].id
         /\ Terminal
         /\ raised = "none"
         /\ llm_calls = 2
         /\ tool_call_count = 1

\* The weather example with a second call in the same answer: the handler's
\* result, then the provider's, then the final answer.
C15_Witness ==
    /\ SingleRound
    /\ Len(messages) = 5
    /\ messages[2].tool_calls[1].name = "get_weather"
    /\ messages[3].content = <<"str", "The weather for ", "Boston, MA", " is 70 degrees.">>
    /\ messages[3].tool_call_id = messages[2].tool_calls[1].id
    /\ messages[2].tool_calls[2].name = "add"
    /\ messages[4].tool_call_id = messages[2].tool_calls[2].id

\* The server of the configuration listed its tools and the list
\* comprehension of line 125 ran over them.
Converted(i) == Initialized /\ outcome[i] \in {"ok", "convert"}

\* C16: for a tool object that has a name and an inputSchema attribute the
\* conversion returns a descriptor and does not raise; when the description
\* is absent or None the descriptor's description is "Tool: <name>"; when
\* the schema is None or no dict, properties and required are empty.
C16_ConvertTotal ==
    \A i \in DOMAIN outcome :
      Converted(i) =>
        \A k \in 1..Len(mcp_config[i].tools) :
          LET tool == mcp_config[i].tools[k] IN
          (tool.hasName /\ tool.hasInputSchema) =>
            /\ outcome[i] = "ok"
            /\ all_tools[k].raised = FALSE
            /\ all_tools[k].name = tool.name
            /\ tool.description \in {<<"absent">>, <<"None">>} =>
                 all_tools[k].description = <<"str", "Tool: ", tool.name>>
            /\ tool.inputSchema.kind # "dict" =>
                 all_tools[k].properties = {} /\ all_tools[k].required = <<>>

\* C17: whether or not the __aexit__ of a session or transport raises
\* during cleanup, every context on the exit stack is closed by it, cleanup
\* returns to chat without an exception, and afterwards active_sessions
\* records no session.
C17_CleanupCompletes ==
    [][(pc = "cleanup" /\ pc' = "returned") =>
         /\ \A x \in SeqToSet(exit_stack) : aexit'[x] = aexit[x] + 1
         /\ exit_stack' = <<>>
         /\ raised' = raised
         /\ active_sessions' = EmptyDict]_vars

\* The model call of this step returns an answer.
ModelAnswers == pc = "llm" /\ llm_calls' = llm_calls + 1 /\ raised' = raised

\* C18: in every step the conversation before it is a prefix of the
\* conversation after it, and a model call that returns appends exactly the
\* returned assistant message, with or without tool calls and also when
\* the limit stops its tool calls from being executed.
C18_AppendOnly ==
    [][/\ Len(messages') >= Len(messages)
       /\ SubSeq(messages', 1, Len(messages)) = messages
       /\ ModelAnswers =>
            /\ Len(messages') = Len(messages) + 1
            /\ messages'[Len(messages')].role = "assistant"
            /\ messages'[Len(messages')].tool_calls = tool_calls']_vars

\* The run ended on the limit, and the answer whose tool calls were not
\* executed is the last message of the conversation.
C18_Witness ==
    /\ Returned
    /\ tool_call_count = MAX_TOOL_CALLS
    /\ messages[Len(messages)].role = "assistant"
    /\ messages[Len(messages)].tool_calls # <<>>
    /\ Cardinality(RunAssistant) = MAX_TOOL_CALLS

CatalogNames == {all_tools[j].name : j \in 1..Len(all_tools)}
CatalogNamesOf(i) == {all_tools[j].name : j \in CatalogEntriesOf(i)}
DispatchEntriesOf(i) ==
    {n \in DOMAIN mcp_tools_dict : mcp_tools_dict[n].session = Session(run, i)}

\* C19: the tool names of the catalog that initialize_servers returns are
\* the keys of the dispatch table it returns, and each server contributed
\* either every tool it listed to both or nothing to either: a tool that
\* fails conversion keeps the whole server out of both.
C19_CatalogMatchesDispatch ==
    Initialized =>
      /\ CatalogNames = DOMAIN mcp_tools_dict
      /\ \A i \in DOMAIN outcome :
           \/ /\ CatalogNamesOf(i) = ToolNamesOf(i)
              /\ Len(mcp_config[i].tools) = Cardinality(CatalogEntriesOf(i))
              /\ ToolNamesOf(i) \subseteq DOMAIN mcp_tools_dict
           \/ /\ CatalogEntriesOf(i) = {}
              /\ DispatchEntriesOf(i) = {}

\* The first server registered its tools; the second listed a tool that
\* cannot be converted next to one that can, and is in neither.
C19_Witness ==
    /\ Initialized
    /\ Len(mcp_config) = 2
    /\ outcome[1] = "ok"
    /\ outcome[2] = "convert"
    /\ "mul" \in ToolNamesOf(2)
    /\ "mul" \notin CatalogNames
    /\ "mul" \notin DOMAIN mcp_tools_dict
    /\ CatalogNames = ToolNamesOf(1)

\* The counter has reached the limit, in this run or in an earlier one.
LimitReached == tool_call_count >= MAX_TOOL_CALLS

\* C20: over the successive chat runs of one flow instance tool_call_count
\* is never reset or lowered, the rounds in which tool calls are executed
\* number at most MAX_TOOL_CALLS - 1 over all runs together, and once the
\* counter has reached MAX_TOOL_CALLS no tool call is executed any more: a
\* run ends at its first answer that carries tool calls.
C20_CounterPerInstance ==
    /\ rounds_total = 0 /\ tool_call_count = 0
    /\ [][/\ tool_call_count' >= tool_call_count
          /\ rounds_total' <= MAX_TOOL_CALLS - 1
          /\ rounds_total' >= rounds_total
          /\ LimitReached =>
               /\ rounds_total' = rounds_total
               /\ pc' # "exec"
               /\ Len(messages') > Len(messages) => messages'[Len(messages')].role # "tool"
               /\ pc = "handle" => pc' = "cleanup" /\ messages' = messages
               /\ (pc = "llm" /\ tool_calls' # <<>>) => pc' = "handle"]_vars

\* The first run used up the counter; the second run got an answer with a
\* tool call as its first, executed nothing and returned.
C20_Witness ==
    /\ Returned
    /\ run = 2
    /\ rounds_total = MAX_TOOL_CALLS - 1
    /\ tool_call_count = MAX_TOOL_CALLS + 1
    /\ exec_rounds = 0
    /\ llm_calls = 1
    /\ messages[Len(messages)].role = "assistant"
    /\ messages[Len(messages)].tool_calls # <<>>

====
